---- MODULE Spec2Model ----
(***************************************************************************)
(* One render of the e-commerce EDA dashboard (src/eda.py): the script is  *)
(* run top to bottom on the uploaded file, and each with-block / stage is  *)
(* one step of the state machine.                                          *)
(*                                                                         *)
(* Tables.  A DataFrame is a sequence of rows, a row a sequence of cells   *)
(* aligned with the column names.  A cell is a tagged pair:                *)
(*   <<"num", n>>  a number          <<"str", s>>  a text (dtype object)   *)
(*   <<"ts", h>>   a Timestamp, h hours since the epoch                    *)
(*   <<"na", 0>>   a missing value (NaN / NaT / None)                      *)
(* pandas semantics assumed (pandas 1.x / 2.x, Copy-on-Write off):         *)
(*   - df[col].fillna(v, inplace=True) updates df (lines 106-114);         *)
(*   - NaN compares False with every number (lines 119-120);               *)
(*   - drop_duplicates treats two missing values as equal;                 *)
(*   - Series.mode() returns the modes sorted ascending;                   *)
(*   - filling a datetime64 column with a text makes it dtype object;      *)
(*   - .dt on a column that is not datetime64 raises AttributeError.       *)
(* Numbers fed in are even, so the mean of two of them is an integer.      *)
(* Plotting is external: a chart request is recorded as issued.            *)
(***************************************************************************)
EXTENDS Integers, Sequences, FiniteSets, TLC

VARIABLES
    pc,             \* position of the script
    uploaded_file,  \* what st.file_uploader returned (line 36)
    df,             \* the working DataFrame: its rows
    dtypes,         \* df.dtypes, aligned with the columns
    numeric_cols, categorical_cols, datetime_cols,   \* lines 52-54
    price_col, qty_col, category_col, date_col,      \* lines 56-59
    missing_option, \* the radio of line 96
    daily,          \* the OHLC table of line 177
    out,            \* what the render has emitted, in order
    exc             \* the uncaught exception that ended the render, if any

vars == <<pc, uploaded_file, df, dtypes, numeric_cols, categorical_cols,
          datetime_cols, price_col, qty_col, category_col, date_col,
          missing_option, daily, out, exc>>

\* Largest number of data rows of an uploaded file.
MaxRows == 3

-----------------------------------------------------------------------------
\* Cells

NA == <<"na", 0>>
Num(n) == <<"num", n>>
Str(s) == <<"str", s>>
Ts(h) == <<"ts", h>>
IsNA(c) == c[1] = "na"

\* Python's None, as returned by a selectbox without options.
None == "None"

Range(s) == {s[i] : i \in DOMAIN s}

\* The column of a table as a sequence of cells.
Column(rows, j) == [i \in DOMAIN rows |-> rows[i][j]]

\* Position of a column name.
Loc(columns, name) == CHOOSE j \in DOMAIN columns : columns[j] = name

\* The rows of a table at the positions in keep, in their original order
\* (boolean-mask indexing, df[mask]).
RECURSIVE SelectRows(_, _, _)
SelectRows(rows, keep, i) ==
    IF i > Len(rows) THEN <<>>
    ELSE IF i \in keep THEN <<rows[i]>> \o SelectRows(rows, keep, i + 1)
         ELSE SelectRows(rows, keep, i + 1)

\* The table with column j replaced by the cells col.
SetColumn(rows, j, col) ==
    [i \in DOMAIN rows |-> [k \in DOMAIN rows[i] |-> IF k = j THEN col[i] ELSE rows[i][k]]]

\* The non-missing cells of a column, in row order.
RECURSIVE NonMissing(_, _)
NonMissing(col, i) ==
    IF i > Len(col) THEN <<>>
    ELSE IF IsNA(col[i]) THEN NonMissing(col, i + 1)
         ELSE <<col[i]>> \o NonMissing(col, i + 1)

\* isnull().sum(), totalled over the columns.
RECURSIVE MissingCount(_)
MissingCount(rows) ==
    IF rows = <<>> THEN 0
    ELSE Cardinality({j \in DOMAIN Head(rows) : IsNA(Head(rows)[j])}) + MissingCount(Tail(rows))

\* One emitted element: an st.error / st.success / st.warning banner, an
\* st.metric card, an st.dataframe table or a chart.
Emit(kind, what, text) == [kind |-> kind, what |-> what, text |-> text]

-----------------------------------------------------------------------------
\* The files a user can upload

NoFile == [kind |-> "none", columns |-> <<>>, rows |-> <<>>]
Malformed == [kind |-> "malformed", columns |-> <<>>, rows |-> <<>>]

\* Column layouts, each column with the values a cell of it is drawn from.
Layouts ==
    { << [name |-> "category", vals |-> {Str("a"), Str("b"), NA}] >>,
      << [name |-> "price", vals |-> {Num(-2), Num(4), NA}],
         [name |-> "qty", vals |-> {Num(0), Num(2)}] >>,
      << [name |-> "order_date",
          vals |-> {Str("2024-01-02 09:00"), Str("2024-01-01 17:00"), Str("soon")}],
         [name |-> "price", vals |-> {Num(2), Num(4), NA}] >>,
      << [name |-> "customer_id", vals |-> {Num(2), Num(4)}],
         [name |-> "category", vals |-> {Str("a"), Str("b"), NA}] >> }

RowsOf(layout) ==
    { r \in [DOMAIN layout -> UNION {layout[j].vals : j \in DOMAIN layout}] :
        \A j \in DOMAIN layout : r[j] \in layout[j].vals }

TablesOf(layout) ==
    UNION { [1..n -> RowsOf(layout)] : n \in 1..MaxRows }

CsvFiles ==
    UNION { { [kind |-> "csv", columns |-> [j \in DOMAIN l |-> l[j].name], rows |-> t] :
                t \in TablesOf(l) } : l \in Layouts }

Files == {NoFile, Malformed} \cup CsvFiles

-----------------------------------------------------------------------------
\* Ingestion and type inference (lines 36-54)

\* The dtype pd.read_csv gives a column: object when a cell is text, else
\* int64, or float64 when a value is missing (an empty column is float64).
InferDtype(col) ==
    IF \E i \in DOMAIN col : col[i][1] = "str" THEN "object"
    ELSE IF \E i \in DOMAIN col : IsNA(col[i]) THEN "float64"
    ELSE "int64"

\* "date" in col.lower() (line 47), decided for the column names of Layouts.
IsDateName(name) == name \in {"order_date"}

\* The texts pd.to_datetime parses, as hours since 2024-01-01 00:00; -1 for
\* a text that is no date.
ParseHours(s) ==
    CASE s = "2024-01-01 17:00" -> 17
      [] s = "2024-01-02 09:00" -> 33
      [] OTHER -> -1

\* pd.to_datetime(cell, errors="coerce") (line 48): a text that does not
\* parse becomes NaT.
ToDatetime(c) ==
    IF c[1] = "str" /\ ParseHours(c[2]) >= 0 THEN Ts(ParseHours(c[2])) ELSE NA

\* Lines 46-48 on the rows.
CoerceDates(columns, rows) ==
    [i \in DOMAIN rows |->
        [j \in DOMAIN columns |->
            IF IsDateName(columns[j]) THEN ToDatetime(rows[i][j]) ELSE rows[i][j]]]

\* Lines 46-48 on the dtypes.
CoerceDtypes(columns, dts) ==
    [j \in DOMAIN columns |-> IF IsDateName(columns[j]) THEN "datetime64" ELSE dts[j]]

NumericDtypes == {"int64", "float64"}

\* df.select_dtypes(include=...).columns.tolist()
SelectDtypes(columns, dts, include) ==
    SelectSeq(columns, LAMBDA n : dts[Loc(columns, n)] \in include)

\* What st.selectbox can return: one of the options, None when there is none.
Selectbox(options) == IF options = <<>> THEN {None} ELSE Range(options)

\* Line 36: the user uploads a file, or none.
FileUploader ==
    /\ pc = "upload"
    /\ \E f \in Files : uploaded_file' = f
    /\ pc' = "read"
    /\ UNCHANGED <<df, dtypes, numeric_cols, categorical_cols, datetime_cols,
                   price_col, qty_col, category_col, date_col, missing_option,
                   daily, out, exc>>

\* Line 38: without a file the script body is skipped.
NoUpload ==
    /\ pc = "read"
    /\ uploaded_file.kind = "none"
    /\ pc' = "done"
    /\ UNCHANGED <<uploaded_file, df, dtypes, numeric_cols, categorical_cols,
                   datetime_cols, price_col, qty_col, category_col, date_col,
                   missing_option, daily, out, exc>>

\* Lines 39-40: the file parses.
ReadCsv ==
    /\ pc = "read"
    /\ uploaded_file.kind = "csv"
    /\ df' = uploaded_file.rows
    /\ dtypes' = [j \in DOMAIN uploaded_file.columns |->
                    InferDtype(Column(uploaded_file.rows, j))]
    /\ pc' = "sidebar"
    /\ UNCHANGED <<uploaded_file, numeric_cols, categorical_cols, datetime_cols,
                   price_col, qty_col, category_col, date_col, missing_option,
                   daily, out, exc>>

\* A handler that reports the error and falls through: df is unbound at
\* line 46.
ParseErrorFallsThrough ==
    /\ out' = Append(out, Emit("error", "Error reading file", ""))
    /\ pc' = "crashed"
    /\ exc' = "NameError"

\* Lines 41-43: the except branch, st.error then st.stop().
OnParseError ==
    /\ out' = Append(out, Emit("error", "Error reading file", ""))
    /\ pc' = "stopped"
    /\ exc' = exc

\* Lines 39-43: the file does not parse.
ReadCsvFails ==
    /\ pc = "read"
    /\ uploaded_file.kind = "malformed"
    /\ OnParseError
    /\ UNCHANGED <<uploaded_file, df, dtypes, numeric_cols, categorical_cols,
                   datetime_cols, price_col, qty_col, category_col, date_col,
                   missing_option, daily>>

\* Lines 45-59: date coercion, the column buckets and the four bindings.
Sidebar ==
    /\ pc = "sidebar"
    /\ LET columns == uploaded_file.columns
           dts == CoerceDtypes(columns, dtypes)
           nums == SelectDtypes(columns, dts, NumericDtypes)
           cats == SelectDtypes(columns, dts, {"object"})
           dates == SelectDtypes(columns, dts, {"datetime64"})
       IN /\ df' = CoerceDates(columns, df)
          /\ dtypes' = dts
          /\ numeric_cols' = nums
          /\ categorical_cols' = cats
          /\ datetime_cols' = dates
          /\ price_col' \in Selectbox(nums)
          /\ qty_col' \in Selectbox(nums)
          /\ category_col' \in Selectbox(cats)
          /\ date_col' \in Selectbox(dates)
    /\ pc' = "kpi"
    /\ UNCHANGED <<uploaded_file, missing_option, daily, out, exc>>

-----------------------------------------------------------------------------
\* KPI metrics (lines 64-70)

\* (df[price_col] * df[qty_col]).sum(): a product with a missing factor is
\* missing, and sum skips it.
RECURSIVE Revenue(_, _, _)
Revenue(rows, p, q) ==
    IF rows = <<>> THEN 0
    ELSE (IF IsNA(Head(rows)[p]) \/ IsNA(Head(rows)[q]) THEN 0
          ELSE Head(rows)[p][2] * Head(rows)[q][2])
         + Revenue(Tail(rows), p, q)

\* A customer count that counts the non-missing cells (Series.count())
\* instead of the distinct ones.
CountNonMissing(col) == Len(NonMissing(col, 1))

\* Series.nunique(): the number of distinct non-missing values.
Nunique(col) == Cardinality(Range(col) \ {NA})

\* Line 70.
UniqueCustomers(columns, rows) ==
    IF \E j \in DOMAIN columns : columns[j] = "customer_id"
    THEN ToString(Nunique(Column(rows, Loc(columns, "customer_id"))))
    ELSE "N/A"

\* Lines 64-70.  df[None] raises KeyError when there is no numeric column.
KpiMetrics ==
    /\ pc = "kpi"
    /\ LET columns == uploaded_file.columns
           orders == Emit("metric", "Total Orders", ToString(Len(df)))
       IN IF price_col = None \/ qty_col = None
          THEN /\ out' = Append(out, orders)
               /\ pc' = "crashed"
               /\ exc' = "KeyError"
          ELSE /\ out' = out \o
                    << orders,
                       Emit("metric", "Total Revenue",
                            ToString(Revenue(df, Loc(columns, price_col),
                                             Loc(columns, qty_col)))),
                       Emit("metric", "Unique Customers", UniqueCustomers(columns, df)) >>
               /\ pc' = "tab1_dedup"
               /\ exc' = exc
    /\ UNCHANGED <<uploaded_file, df, dtypes, numeric_cols, categorical_cols,
                   datetime_cols, price_col, qty_col, category_col, date_col,
                   missing_option, daily>>

-----------------------------------------------------------------------------
\* Tab 1: data cleaning (lines 84-127)

\* drop_duplicates keeping only a row that differs from the row before it.
DropAdjacentDuplicates(rows) ==
    SelectRows(rows, {i \in DOMAIN rows : i = 1 \/ rows[i - 1] # rows[i]}, 1)

\* df.drop_duplicates() (line 87): a row equal to an earlier row is dropped.
DropDuplicates(rows) ==
    SelectRows(rows, {i \in DOMAIN rows : \A j \in 1..(i - 1) : rows[j] # rows[i]}, 1)

\* Lines 86-89.
Deduplicate ==
    /\ pc = "tab1_dedup"
    /\ LET before_dupes == Len(df)
           after == DropDuplicates(df)
           after_dupes == Len(after)
       IN /\ df' = after
          /\ out' = Append(out, Emit("success", "duplicate rows removed",
                                     ToString(before_dupes - after_dupes)))
    /\ pc' = "tab1_missing"
    /\ UNCHANGED <<uploaded_file, dtypes, numeric_cols, categorical_cols,
                   datetime_cols, price_col, qty_col, category_col, date_col,
                   missing_option, daily, exc>>

\* The three choices of the radio of lines 96-99.
DropRows == "Drop rows"
FillMedianMode == "Fill with mean/median/mode"
FillConstant == "Fill with constant (e.g., 0)"
MissingOptions == {DropRows, FillMedianMode, FillConstant}

\* df.dropna() (line 102).
DropNa(rows) ==
    SelectRows(rows, {i \in DOMAIN rows : \A j \in DOMAIN rows[i] : ~IsNA(rows[i][j])}, 1)

\* Series.fillna(value): a missing value as the fill value leaves the cell
\* missing.
FillNa(col, value) == [i \in DOMAIN col |-> IF IsNA(col[i]) THEN value ELSE col[i]]

\* A sequence of integers with x inserted into the sorted sequence s.
RECURSIVE Insert(_, _)
Insert(x, s) ==
    IF s = <<>> THEN <<x>>
    ELSE IF x <= Head(s) THEN <<x>> \o s
         ELSE <<Head(s)>> \o Insert(x, Tail(s))

\* The numbers of the cells, sorted ascending.
RECURSIVE SortNumbers(_)
SortNumbers(cells) ==
    IF cells = <<>> THEN <<>>
    ELSE Insert(Head(cells)[2], SortNumbers(Tail(cells)))

\* A median that takes the lower of the two middle values.
LowerMedian(col) ==
    LET v == SortNumbers(NonMissing(col, 1))
        n == Len(v)
    IN IF n = 0 THEN NA ELSE Num(v[(n + 1) \div 2])

\* Series.median() (line 106): missing values are skipped; the mean of the
\* two middle values when their number is even; NaN when there is none.
Median(col) ==
    LET v == SortNumbers(NonMissing(col, 1))
        n == Len(v)
    IN IF n = 0 THEN NA
       ELSE IF n % 2 = 1 THEN Num(v[(n + 1) \div 2])
       ELSE Num((v[n \div 2] + v[n \div 2 + 1]) \div 2)

\* The rank of a text in lexicographic order, among the texts of the model.
TextRank(s) ==
    CASE s = "2024-01-01 17:00" -> 1
      [] s = "2024-01-02 09:00" -> 2
      [] s = "Unknown" -> 3
      [] s = "a" -> 4
      [] s = "b" -> 5
      [] s = "soon" -> 6

\* The sort key of a text or Timestamp cell.
SortKey(c) == IF c[1] = "str" THEN TextRank(c[2]) ELSE c[2]

\* The cells of a set, sorted ascending.
RECURSIVE SortCells(_)
SortCells(S) ==
    IF S = {} THEN <<>>
    ELSE LET least == CHOOSE c \in S : \A d \in S : SortKey(c) <= SortKey(d)
         IN <<least>> \o SortCells(S \ {least})

\* Series.mode() (line 108): the most frequent non-missing values, sorted
\* ascending; empty when every value is missing.
Mode(col) ==
    LET vals == NonMissing(col, 1)
        Count(v) == Cardinality({i \in DOMAIN vals : vals[i] = v})
    IN SortCells({v \in Range(vals) : \A w \in Range(vals) : Count(w) <= Count(v)})

\* Lines 104-108 from column j on.  mode()[0] raises when mode() is empty;
\* the columns before it are already filled.
RECURSIVE ImputeMedianMode(_, _, _)
ImputeMedianMode(rows, dts, j) ==
    IF j > Len(dts) THEN [rows |-> rows, raised |-> FALSE]
    ELSE LET col == Column(rows, j)
         IN IF dts[j] \in NumericDtypes
            THEN ImputeMedianMode(SetColumn(rows, j, FillNa(col, Median(col))), dts, j + 1)
            ELSE IF Mode(col) = <<>>
                 THEN [rows |-> rows, raised |-> TRUE]
                 ELSE ImputeMedianMode(SetColumn(rows, j, FillNa(col, Mode(col)[1])),
                                       dts, j + 1)

\* A constant fill that uses 0 for every column that is not text.
ConstantZeroUnlessObject(dtype) == IF dtype = "object" THEN Str("Unknown") ELSE Num(0)

\* Lines 111-114: the constant a column of this dtype is filled with.
ConstantFor(dtype) == IF dtype \in NumericDtypes THEN Num(0) ELSE Str("Unknown")

\* Lines 110-114 on the rows.
ImputeConstant(rows, dts) ==
    [i \in DOMAIN rows |->
        [j \in DOMAIN dts |->
            IF IsNA(rows[i][j]) THEN ConstantFor(dts[j]) ELSE rows[i][j]]]

\* Lines 110-114 on the dtypes: a datetime64 column that received the text
\* "Unknown" becomes an object column.
ImputeConstantDtypes(rows, dts) ==
    [j \in DOMAIN dts |->
        IF dts[j] = "datetime64" /\ (\E i \in DOMAIN rows : IsNA(rows[i][j]))
        THEN "object" ELSE dts[j]]

\* Lines 91-117.
HandleMissing ==
    /\ pc = "tab1_missing"
    /\ \E option \in MissingOptions :
        LET before == Emit("dataframe", "Missing Values Before Cleaning",
                           ToString(MissingCount(df)))
            imputed == ImputeMedianMode(df, dtypes, 1)
            cleaned == CASE option = DropRows -> DropNa(df)
                         [] option = FillMedianMode -> imputed.rows
                         [] option = FillConstant -> ImputeConstant(df, dtypes)
            raised == option = FillMedianMode /\ imputed.raised
        IN /\ missing_option' = option
           /\ df' = cleaned
           /\ dtypes' = IF option = FillConstant
                        THEN ImputeConstantDtypes(df, dtypes) ELSE dtypes
           /\ IF raised
              THEN /\ out' = Append(out, before)
                   /\ pc' = "crashed"
                   /\ exc' = "KeyError"
              ELSE /\ out' = out \o
                        << before,
                           Emit("dataframe", "Missing Values After Cleaning",
                                ToString(MissingCount(cleaned))) >>
                   /\ pc' = "tab1_filter"
                   /\ exc' = exc
    /\ UNCHANGED <<uploaded_file, numeric_cols, categorical_cols, datetime_cols,
                   price_col, qty_col, category_col, date_col, daily>>

\* Comparisons of a cell with a number: False for a missing value.
NumLt(c, k) == c[1] = "num" /\ c[2] < k
NumLe(c, k) == c[1] = "num" /\ c[2] <= k
NumGt(c, k) == c[1] = "num" /\ c[2] > k
NumGe(c, k) == c[1] = "num" /\ c[2] >= k

\* Line 119: the number of rows matching (price < 0) | (qty <= 0).
InvalidRows(rows, p, q) ==
    Cardinality({i \in DOMAIN rows : NumLt(rows[i][p], 0) \/ NumLe(rows[i][q], 0)})

\* Line 120: df[(price >= 0) & (qty > 0)].
ValidRows(rows, p, q) ==
    SelectRows(rows, {i \in DOMAIN rows : NumGe(rows[i][p], 0) /\ NumGt(rows[i][q], 0)}, 1)

\* Lines 119-127: the invalid-row filter, the summary and the preview.
FilterInvalid ==
    /\ pc = "tab1_filter"
    /\ LET p == Loc(uploaded_file.columns, price_col)
           q == Loc(uploaded_file.columns, qty_col)
           kept == ValidRows(df, p, q)
       IN /\ df' = kept
          /\ out' = out \o
                << Emit("success", "invalid rows removed", ToString(InvalidRows(df, p, q))),
                   Emit("dataframe", "Summary Statistics", ToString(Len(kept))),
                   Emit("dataframe", "Dataset Preview", ToString(Len(kept))) >>
    /\ pc' = "tab2"
    /\ UNCHANGED <<uploaded_file, dtypes, numeric_cols, categorical_cols,
                   datetime_cols, price_col, qty_col, category_col, date_col,
                   missing_option, daily, exc>>

-----------------------------------------------------------------------------
\* Tabs 2-5: the views (lines 130-199)

\* Lines 130-147.
Univariate ==
    /\ pc = "tab2"
    /\ IF numeric_cols # <<>>
       THEN \E col \in Range(numeric_cols) :
              LET values == Column(df, Loc(uploaded_file.columns, col))
                  plot == IF Nunique(values) < 10 THEN "countplot" ELSE "histplot"
              IN out' = out \o << Emit("chart", plot, col),
                                  Emit("dataframe", "Summary Stats", col) >>
       ELSE out' = Append(out, Emit("warning", "Univariate", "No numeric columns found!"))
    /\ pc' = "tab3"
    /\ UNCHANGED <<uploaded_file, df, dtypes, numeric_cols, categorical_cols,
                   datetime_cols, price_col, qty_col, category_col, date_col,
                   missing_option, daily, exc>>

\* Lines 150-159.
Categorical ==
    /\ pc = "tab3"
    /\ IF categorical_cols # <<>>
       THEN \E cat_col \in Range(categorical_cols) :
              out' = Append(out, Emit("chart", "bar", cat_col))
       ELSE out' = Append(out, Emit("warning", "Categorical",
                                    "No categorical columns found!"))
    /\ pc' = "tab4"
    /\ UNCHANGED <<uploaded_file, df, dtypes, numeric_cols, categorical_cols,
                   datetime_cols, price_col, qty_col, category_col, date_col,
                   missing_option, daily, exc>>

\* Lines 162-171.
Bivariate ==
    /\ pc = "tab4"
    /\ IF category_col # None /\ price_col # None
       THEN out' = Append(out, Emit("chart", "boxplot", category_col))
       ELSE out' = Append(out, Emit("warning", "Bivariate",
                                    "Category or Price column not selected!"))
    /\ pc' = "tab5"
    /\ UNCHANGED <<uploaded_file, df, dtypes, numeric_cols, categorical_cols,
                   datetime_cols, price_col, qty_col, category_col, date_col,
                   missing_option, daily, exc>>

\* Series.dt.date of a Timestamp: the day, the time of day discarded.
DateOf(c) == c[2] \div 24

\* The numbers of a set, sorted ascending (groupby sorts its keys).
RECURSIVE SortSet(_)
SortSet(S) ==
    IF S = {} THEN <<>>
    ELSE LET least == CHOOSE x \in S : \A y \in S : x <= y
         IN <<least>> \o SortSet(S \ {least})

\* The groupby aggregations 'first', 'last', 'max' and 'min': each skips
\* missing values and is missing for a group without a value.
AggFirst(col) == LET v == NonMissing(col, 1) IN IF v = <<>> THEN NA ELSE v[1]
AggLast(col) == LET v == NonMissing(col, 1) IN IF v = <<>> THEN NA ELSE v[Len(v)]
AggMax(col) ==
    LET v == SortNumbers(NonMissing(col, 1)) IN IF v = <<>> THEN NA ELSE Num(v[Len(v)])
AggMin(col) ==
    LET v == SortNumbers(NonMissing(col, 1)) IN IF v = <<>> THEN NA ELSE Num(v[1])

\* Lines 177-182: df.groupby(df[date_col].dt.date).agg(open=first, high=max,
\* low=min, close=last).reset_index(); rows without a date are in no group.
DailyOHLC(rows, d, p) ==
    LET dated == {i \in DOMAIN rows : ~IsNA(rows[i][d])}
        keys == SortSet({DateOf(rows[i][d]) : i \in dated})
        Prices(k) == Column(SelectRows(rows, {i \in dated : DateOf(rows[i][d]) = k}, 1), p)
    IN [n \in DOMAIN keys |->
          [date |-> keys[n],
           open |-> AggFirst(Prices(keys[n])),
           high |-> AggMax(Prices(keys[n])),
           low |-> AggMin(Prices(keys[n])),
           close |-> AggLast(Prices(keys[n]))]]

CorrelationMethods == {"pearson", "spearman", "kendall"}

\* Lines 194-199, after the elements `shown` of this tab.
Heatmap(shown) ==
    IF numeric_cols # <<>>
    THEN \E method \in CorrelationMethods :
           out' = out \o shown \o << Emit("chart", "heatmap", method) >>
    ELSE out' = out \o shown

\* Lines 174-199.  The .dt accessor of line 177 raises AttributeError when
\* the date column is no longer datetime64.
TimeAndCorrelation ==
    /\ pc = "tab5"
    /\ IF date_col # None /\ price_col # None
       THEN LET d == Loc(uploaded_file.columns, date_col)
                p == Loc(uploaded_file.columns, price_col)
            IN IF dtypes[d] # "datetime64"
               THEN /\ pc' = "crashed"
                    /\ exc' = "AttributeError"
                    /\ UNCHANGED <<daily, out>>
               ELSE /\ daily' = DailyOHLC(df, d, p)
                    /\ Heatmap(<< Emit("chart", "candlestick", "Daily Price Movement") >>)
                    /\ pc' = "done"
                    /\ exc' = exc
       ELSE /\ Heatmap(<<>>)
            /\ pc' = "done"
            /\ UNCHANGED <<daily, exc>>
    /\ UNCHANGED <<uploaded_file, df, dtypes, numeric_cols, categorical_cols,
                   datetime_cols, price_col, qty_col, category_col, date_col,
                   missing_option>>

Init ==
    /\ pc = "upload"
    /\ uploaded_file = NoFile
    /\ df = <<>>
    /\ dtypes = <<>>
    /\ numeric_cols = <<>>
    /\ categorical_cols = <<>>
    /\ datetime_cols = <<>>
    /\ price_col = None
    /\ qty_col = None
    /\ category_col = None
    /\ date_col = None
    /\ missing_option = None
    /\ daily = <<>>
    /\ out = <<>>
    /\ exc = None

Next ==
    \/ FileUploader
    \/ NoUpload
    \/ ReadCsv
    \/ ReadCsvFails
    \/ Sidebar
    \/ KpiMetrics
    \/ Deduplicate
    \/ HandleMissing
    \/ FilterInvalid
    \/ Univariate
    \/ Categorical
    \/ Bivariate
    \/ TimeAndCorrelation

Spec == Init /\ [][Next]_vars
-----------------------------------------------------------------------------
\* Properties

Columns == uploaded_file.columns
Parsed == uploaded_file.kind = "csv" /\ pc \notin {"upload", "read"}
Bound == Parsed /\ pc # "sidebar"
Warned(view) == \E i \in DOMAIN out : out[i].kind = "warning" /\ out[i].what = view
Charted(plots) == \E i \in DOMAIN out : out[i].kind = "chart" /\ out[i].what \in plots

\* C1: when the uploaded file does not parse, the render emits exactly one
\* error banner and halts there: nothing is bound, cleaned, summarised or
\* charted, no exception escapes, and no further step can run.
C1_ParseFailureHalts ==
    (uploaded_file.kind = "malformed" /\ pc # "read") =>
        /\ pc = "stopped"
        /\ exc = None
        /\ Len(out) = 1
        /\ out[1].kind = "error"
        /\ df = <<>>
        /\ numeric_cols = <<>> /\ categorical_cols = <<>> /\ datetime_cols = <<>>
        /\ price_col = None /\ qty_col = None
        /\ category_col = None /\ date_col = None
        /\ missing_option = None
        /\ daily = <<>>
        /\ ~ENABLED Next

C1_Witness == uploaded_file.kind = "malformed" /\ pc = "stopped"

\* C2: for a parsed table whose price or quantity binding is unset, the
\* render never ends in an uncaught exception.
C2_UnboundNeverCrashes ==
    (Bound /\ (price_col = None \/ qty_col = None)) => pc # "crashed"

\* C3: at the end of a render, every view whose binding or column bucket is
\* absent has emitted a warning and no chart.
C3_AbsentBindingWarns ==
    (Parsed /\ pc = "done") =>
        /\ numeric_cols = <<>> =>
              Warned("Univariate") /\ ~Charted({"countplot", "histplot"})
        /\ categorical_cols = <<>> =>
              Warned("Categorical") /\ ~Charted({"bar"})
        /\ (category_col = None \/ price_col = None) =>
              Warned("Bivariate") /\ ~Charted({"boxplot"})
        /\ (date_col = None \/ price_col = None) =>
              Warned("Time & OHLC") /\ ~Charted({"candlestick"})
        /\ numeric_cols = <<>> =>
              Warned("Correlation") /\ ~Charted({"heatmap"})

\* The position of the first row of T equal to r.
FirstIndex(T, r) == CHOOSE i \in DOMAIN T : T[i] = r /\ \A k \in 1..(i - 1) : T[k] # r

\* C4: the deduplication step leaves no two equal rows, keeps exactly the
\* rows of its input, each at the relative position of its first occurrence,
\* is idempotent, and reports the number of rows it removed.
C4_Deduplication ==
    [][pc = "tab1_dedup" =>
         /\ \A a, b \in DOMAIN df' : a # b => df'[a] # df'[b]
         /\ Range(df') = Range(df)
         /\ \A a, b \in DOMAIN df' :
               a < b => FirstIndex(df, df'[a]) < FirstIndex(df, df'[b])
         /\ DropDuplicates(df') = df'
         /\ out'[Len(out')] = Emit("success", "duplicate rows removed",
                                   ToString(Len(df) - Len(df')))]_vars

\* A table with a duplicate that is not next to its first occurrence.
C4_Witness ==
    /\ pc = "tab1_missing"
    /\ Len(uploaded_file.rows) = 3
    /\ uploaded_file.rows[1] = uploaded_file.rows[3]
    /\ uploaded_file.rows[1] # uploaded_file.rows[2]
    /\ Len(df) = 2

\* C5: under the constant-fill policy the missing-value step keeps every
\* row, turns a missing value into 0 in a numeric column and into the text
\* "Unknown" in any other column, leaves every other value as it was, and
\* leaves no missing value.
C5_ConstantFill ==
    [][(pc = "tab1_missing" /\ missing_option' = FillConstant) =>
         /\ pc' = "tab1_filter"
         /\ Len(df') = Len(df)
         /\ \A i \in DOMAIN df : \A j \in DOMAIN Columns :
               /\ ~IsNA(df'[i][j])
               /\ df'[i][j] = IF ~IsNA(df[i][j]) THEN df[i][j]
                              ELSE IF Columns[j] \in Range(numeric_cols) THEN Num(0)
                              ELSE Str("Unknown")]_vars

\* A missing date and a missing number filled in one table.
C5_Witness ==
    /\ pc = "tab1_filter"
    /\ missing_option = FillConstant
    /\ \E i \in DOMAIN df : \E j \in DOMAIN Columns :
          Columns[j] \in Range(datetime_cols) /\ df[i][j] = Str("Unknown")
    /\ \E i \in DOMAIN df : \E j \in DOMAIN Columns :
          /\ Columns[j] \in Range(numeric_cols)
          /\ df[i][j] = Num(0)
          /\ IsNA(uploaded_file.rows[i][j])

\* The k-th smallest (k from 0) of the numbers of the cells xs.
OrderStatistic(xs, k) ==
    CHOOSE v \in {xs[i][2] : i \in DOMAIN xs} :
        /\ Cardinality({i \in DOMAIN xs : xs[i][2] < v}) <= k
        /\ Cardinality({i \in DOMAIN xs : xs[i][2] <= v}) > k

\* The median of the non-missing values of a column: missing when there is
\* none.
MedianOf(col) ==
    LET xs == NonMissing(col, 1)
        n == Len(xs)
    IN IF n = 0 THEN NA
       ELSE Num((OrderStatistic(xs, (n - 1) \div 2) + OrderStatistic(xs, n \div 2)) \div 2)

\* The imputation loop of lines 104-108 reaches column j: no column before
\* it stops the loop.
Reaches(rows, j) ==
    \A k \in 1..(j - 1) :
        dtypes[k] \in NumericDtypes \/ \E i \in DOMAIN rows : ~IsNA(rows[i][k])

C7_FilterCountsRemovedRows ==
    [][pc = "tab1_filter" =>
         LET p == Loc(Columns, price_col)
             q == Loc(Columns, qty_col)
             invalid == {i \in DOMAIN df : NumLt(df[i][p], 0) \/ NumLe(df[i][q], 0)}
         IN /\ df' = SelectRows(df, DOMAIN df \ invalid, 1)
            /\ \A i \in DOMAIN df' : NumGe(df'[i][p], 0) /\ NumGt(df'[i][q], 0)
            /\ \E i \in DOMAIN out' :
                  out'[i] = Emit("success", "invalid rows removed",
                                 ToString(Len(df) - Len(df')))]_vars

\* The days present in the date column of a table.
DaysOf(rows, d) == {rows[i][d][2] \div 24 : i \in {k \in DOMAIN rows : rows[k][d][1] = "ts"}}

\* C8: with date and price bound, the Time view computes the daily table:
\* one row per day present, ascending, with open and close the first and
\* last price of the day in row order and high and low its extremes.
C8_DailyOHLC ==
    [][(pc = "tab5" /\ date_col # None /\ price_col # None) =>
         LET d == Loc(Columns, date_col)
             p == Loc(Columns, price_col)
             On(day) == {i \in DOMAIN df : df[i][d][1] = "ts" /\ df[i][d][2] \div 24 = day}
         IN /\ pc' = "done"
            /\ {daily'[n].date : n \in DOMAIN daily'} = DaysOf(df, d)
            /\ Len(daily') = Cardinality(DaysOf(df, d))
            /\ \A m, n \in DOMAIN daily' : m < n => daily'[m].date < daily'[n].date
            /\ \A n \in DOMAIN daily' :
                  LET rows == On(daily'[n].date)
                      first == CHOOSE i \in rows : \A k \in rows : i <= k
                      last == CHOOSE i \in rows : \A k \in rows : k <= i
                  IN /\ daily'[n].open = df[first][p]
                     /\ daily'[n].close = df[last][p]
                     /\ \E i \in rows : daily'[n].high = df[i][p]
                     /\ \E i \in rows : daily'[n].low = df[i][p]
                     /\ \A i \in rows :
                           /\ df[i][p][2] <= daily'[n].high[2]
                           /\ daily'[n].low[2] <= df[i][p][2]]_vars

\* The number of distinct non-missing values of a column, counted by first
\* occurrences.
DistinctValues(col) ==
    Cardinality({i \in DOMAIN col :
                    ~IsNA(col[i]) /\ \A k \in 1..(i - 1) : col[k] # col[i]})

FirstMostFrequent(col) ==
    LET vals == NonMissing(col, 1)
        Count(v) == Cardinality({i \in DOMAIN vals : vals[i] = v})
        best == {i \in DOMAIN vals : \A k \in DOMAIN vals : Count(vals[k]) <= Count(vals[i])}
    IN vals[CHOOSE i \in best : \A k \in best : i <= k]

\* C10: under the median/mode policy the missing-value step completes, and
\* in every non-numeric column each missing value becomes the most frequent
\* value of the column, the first encountered when several tie.
C10_ModeImputation ==
    [][(pc = "tab1_missing" /\ missing_option' = FillMedianMode) =>
         /\ pc' = "tab1_filter"
         /\ \A j \in DOMAIN Columns :
               Columns[j] \notin Range(numeric_cols) =>
                   \A i \in DOMAIN df :
                       df'[i][j] = IF IsNA(df[i][j]) THEN FirstMostFrequent(Column(df, j))
                                   ELSE df[i][j]]_vars

====
